---- MODULE Spec2Model ----
(***************************************************************************)
(* Model of add0Script.py: the date-prefix filename normalizer             *)
(* (normalize_filename), the collision-guarded renamer (safe_rename), the  *)
(* input collector (collect_files) and the driver (main, wait_exit, the    *)
(* __main__ guard).                                                        *)
(*                                                                         *)
(* A filename is a sequence of one-character strings.  FWDOT stands for    *)
(* the full-width period U+FF0E and NL for the line feed.                  *)
(***************************************************************************)
EXTENDS Integers, Sequences, FiniteSets, TLC

VARIABLES
    os,         \* os.name: "nt" or "posix"
    fs,         \* the files on disk: a set of [dir, name, id]
    argv,       \* sys.argv[1:]
    run,        \* "first" or "second" invocation of the program
    pc,         \* position of the driver
    argi,       \* collect_files: index of the next raw argument
    results,    \* collect_files: the list being built, then main's `files`
    i,          \* main: index of the next file of the loop
    success,    \* main: the success counter
    processed,  \* history: the calls of safe_rename, in order, with their outcome
    renames,    \* history: renames performed on the filesystem in this run
    summary,    \* the printed summary, or NoSummary
    gate,       \* wait_exit was entered
    paused,     \* wait_exit blocked for a key press
    exc,        \* the exception that escaped main, or "none"
    clean,      \* history: the first run met no rename error
    prev,       \* history: the success counter of the first run
    parts,      \* normalizer harness: the pieces the input name was built from
    filename,   \* normalizer harness: the input name
    res1,       \* normalizer harness: normalize_filename(filename)
    res2,       \* normalizer harness: normalize_filename(res1.name)
    npc         \* normalizer harness: "off", "input", "once", "twice"

vars == <<os, fs, argv, run, pc, argi, results, i, success, processed, renames,
          summary, gate, paused, exc, clean, prev, parts, filename, res1, res2, npc>>

fsvars == <<os, fs, argv, run, pc, argi, results, i, success, processed, renames,
            summary, gate, paused, exc, clean, prev>>

nzvars == <<parts, filename, res1, res2, npc>>

----------------------------------------------------------------------------
(* Bounds *)

MaxRestLen == 2     \* longest remainder after the day, in the normalizer harness
MaxFiles == 2       \* most files on disk at the start
MaxArgs == 2        \* most command-line arguments
MaxFaults == 1      \* most rename calls the environment fails in one run

----------------------------------------------------------------------------
(* Characters and string helpers *)

DOT == "."
FWDOT == "uFF0E"
NL == "\n"

Digit == {"0", "1", "2", "3", "4", "5", "6", "7", "8", "9"}

\* str.lower, on the alphabet of the model
lower(c) == CASE c = "T" -> "t" [] c = "X" -> "x" [] OTHER -> c

lower_str(s) == [k \in 1..Len(s) |-> lower(s[k])]

endswith(s, suf) ==
    /\ Len(s) >= Len(suf)
    /\ SubSeq(s, Len(s) - Len(suf) + 1, Len(s)) = suf

\* str.rfind, 1-based; 0 when the character does not occur
rfind(s, c) ==
    LET hits == {k \in 1..Len(s) : s[k] = c}
    IN  IF hits = {} THEN 0 ELSE CHOOSE k \in hits : \A j \in hits : j <= k

DOT_TXT == <<".", "t", "x", "t">>

\* os.path.splitext on a bare filename: split at the last ASCII period unless
\* only periods precede it
splitext(p) ==
    LET dot == rfind(p, DOT)
    IN  IF dot > 0 /\ \E k \in 1..(dot - 1) : p[k] # DOT
        THEN <<SubSeq(p, 1, dot - 1), SubSeq(p, dot, Len(p))>>
        ELSE <<p, <<>>>>

\* a padding that always prepends one zero, whatever the width
zfill_prepend(s, width) == <<"0">> \o s

\* str.zfill of a digit string
zfill(s, width) ==
    IF Len(s) >= width THEN s ELSE [k \in 1..(width - Len(s)) |-> "0"] \o s

----------------------------------------------------------------------------
(* DATE_PATTERN *)

NoMatch == [matched |-> FALSE]

AllDigits(s, from, to) == \A k \in from..to : s[k] \in Digit

\* the class [．.]
IsSep(c) == c \in {DOT, FWDOT}

\* (.*)$ : the dot does not match a line feed; $ matches at the end of the
\* string or just before a line feed that ends it
TailMatches(t) == \A k \in 1..Len(t) : t[k] = NL => k = Len(t)

TailGroup(t) ==
    IF t # <<>> /\ t[Len(t)] = NL THEN SubSeq(t, 1, Len(t) - 1) ELSE t

\* one way of matching: the month takes ml characters and the day dl
MatchWith(stem, ml, dl) ==
    /\ Len(stem) >= 6 + ml + dl
    /\ AllDigits(stem, 1, 4)
    /\ IsSep(stem[5])
    /\ AllDigits(stem, 6, 5 + ml)
    /\ IsSep(stem[6 + ml])
    /\ AllDigits(stem, 7 + ml, 6 + ml + dl)
    /\ TailMatches(SubSeq(stem, 7 + ml + dl, Len(stem)))

Groups(stem, ml, dl) ==
    [matched |-> TRUE,
     year  |-> SubSeq(stem, 1, 4),
     sep1  |-> stem[5],
     month |-> SubSeq(stem, 6, 5 + ml),
     sep2  |-> stem[6 + ml],
     day   |-> SubSeq(stem, 7 + ml, 6 + ml + dl),
     rest  |-> TailGroup(SubSeq(stem, 7 + ml + dl, Len(stem)))]

\* DATE_PATTERN.match(stem): \d{1,2} is greedy, so two digits are tried
\* before one, the month before the day
DATE_PATTERN_match(stem) ==
    IF MatchWith(stem, 2, 2) THEN Groups(stem, 2, 2)
    ELSE IF MatchWith(stem, 2, 1) THEN Groups(stem, 2, 1)
    ELSE IF MatchWith(stem, 1, 2) THEN Groups(stem, 1, 2)
    ELSE IF MatchWith(stem, 1, 1) THEN Groups(stem, 1, 1)
    ELSE NoMatch

----------------------------------------------------------------------------
(* normalize_filename *)

new_stem(year, new_month, new_day, rest) ==
    year \o <<DOT>> \o new_month \o <<DOT>> \o new_day \o rest

\* returns (changed, new name, diagnostic); the diagnostic is kept as its kind
normalize_filename(fname) ==
    IF ~endswith(lower_str(fname), DOT_TXT)
    THEN [changed |-> FALSE, name |-> fname, diag |-> "not_txt"]
    ELSE
      LET stem == splitext(fname)[1]
          ext == splitext(fname)[2]
          match == DATE_PATTERN_match(stem)
      IN  IF ~match.matched
          THEN [changed |-> FALSE, name |-> fname, diag |-> "no_date_prefix"]
          ELSE
            LET new_month == zfill(match.month, 2)
                new_day == zfill(match.day, 2)
            IN  IF /\ match.month = new_month
                   /\ match.day = new_day
                   /\ match.sep1 = DOT
                   /\ match.sep2 = DOT
                THEN [changed |-> FALSE, name |-> fname, diag |-> "already_normalized"]
                ELSE [changed |-> TRUE,
                      name |-> new_stem(match.year, new_month, new_day, match.rest) \o ext,
                      diag |-> "normalized"]

----------------------------------------------------------------------------
(* Normalizer harness: names built from pieces, normalized once and again *)

RECURSIVE SeqsUpTo(_, _)
SeqsUpTo(S, n) ==
    IF n = 0 THEN {<<>>}
    ELSE LET shorter == SeqsUpTo(S, n - 1)
         IN  shorter \cup {Append(t, c) : t \in {u \in shorter : Len(u) = n - 1}, c \in S}

Years == {<<"2", "0", "2", "4">>, <<"0", "2", "4">>}
SepPieces == {<<DOT>>, <<FWDOT>>, <<"-">>}
Months == {<<"3">>, <<"0", "3">>, <<"1", "3">>, <<"a">>}
Days == {<<"5">>, <<"0", "5">>, <<"0">>}
RestChars == {"a", "1", NL, DOT}
Rests == SeqsUpTo(RestChars, MaxRestLen)
Exts == {DOT_TXT, <<".", "T", "X", "T">>, <<".", "m", "d">>, <<>>}

Pieces == [y : Years, s1 : SepPieces, m : Months, s2 : SepPieces, d : Days,
           r : Rests, e : Exts]

Join(p) == p.y \o p.s1 \o p.m \o p.s2 \o p.d \o p.r \o p.e

NoResult == [changed |-> FALSE, name |-> <<>>, diag |-> "none"]
NoParts == [y |-> <<>>, s1 |-> <<>>, m |-> <<>>, s2 |-> <<>>, d |-> <<>>,
            r |-> <<>>, e |-> <<>>]

NormalizeOnce ==
    /\ npc = "input"
    /\ res1' = normalize_filename(filename)
    /\ npc' = "once"
    /\ UNCHANGED <<parts, filename, res2>>
    /\ UNCHANGED fsvars

NormalizeAgain ==
    /\ npc = "once"
    /\ res2' = normalize_filename(res1.name)
    /\ npc' = "twice"
    /\ UNCHANGED <<parts, filename, res1>>
    /\ UNCHANGED fsvars

----------------------------------------------------------------------------
(* The filesystem: one directory D with a subdirectory D/S *)

ROOT == "D"
SUB == "D/S"

\* the directories rglob visits from d, the directory itself first
ScanOrder(d) == IF d = ROOT THEN <<ROOT, SUB>> ELSE <<d>>

Y2024 == <<"2", "0", "2", "4">>
TXT_UPPER == <<".", "T", "X", "T">>
ShortName == Y2024 \o <<DOT, "3", DOT, "5">> \o DOT_TXT
WideName == Y2024 \o <<FWDOT, "3", FWDOT, "5">> \o DOT_TXT
PaddedName == Y2024 \o <<DOT, "0", "3", DOT, "0", "5">> \o DOT_TXT
ShortUpper == Y2024 \o <<DOT, "3", DOT, "5">> \o TXT_UPPER
OtherName == <<"a", ".", "m", "d">>

\* the places a file can be at the start; a file's id is its place's index
Slots == << [dir |-> ROOT, name |-> ShortName],
            [dir |-> ROOT, name |-> WideName],
            [dir |-> ROOT, name |-> PaddedName],
            [dir |-> ROOT, name |-> ShortUpper],
            [dir |-> ROOT, name |-> OtherName],
            [dir |-> SUB,  name |-> ShortName] >>

\* names are compared without case on Windows
SameName(a, b) == IF os = "nt" THEN lower_str(a) = lower_str(b) ELSE a = b

\* Path.exists for a file path
exists(fsys, path) ==
    \E e \in fsys : e.dir = path.dir /\ SameName(e.name, path.name)

\* a collision check that never finds the destination
destination_exists_never(fsys, new_path) == FALSE

\* new_path.exists(), the collision check of safe_rename
destination_exists(fsys, new_path) == exists(fsys, new_path)

\* the destination built without the parent: relative to the working directory
new_path_in_cwd(file_path, new_name) == [dir |-> ROOT, name |-> new_name]

\* new_path = file_path.parent / new_name
new_path_of(file_path, new_name) == [dir |-> file_path.dir, name |-> new_name]

EntryAt(fsys, path) ==
    CHOOSE e \in fsys : e.dir = path.dir /\ SameName(e.name, path.name)

\* Path(raw).resolve() of a file path: the path of the file on disk, which on
\* Windows carries the case the directory records; the path as given when
\* nothing is there
resolve(fsys, raw) ==
    IF exists(fsys, raw) THEN [dir |-> raw.dir, name |-> EntryAt(fsys, raw).name] ELSE raw

\* PurePath.suffix
suffix(name) ==
    LET k == rfind(name, DOT)
    IN  IF k > 1 /\ k < Len(name) THEN SubSeq(name, k, Len(name)) ELSE <<>>

\* the match of the glob pattern "*.txt": pathlib folds case on Windows only
glob_txt(name) ==
    IF os = "nt" THEN endswith(lower_str(name), DOT_TXT) ELSE endswith(name, DOT_TXT)

RECURSIVE Orders(_)
Orders(S) ==
    IF S = {} THEN {<<>>}
    ELSE UNION {{<<x>> \o t : t \in Orders(S \ {x})} : x \in S}

\* the scandir order of a directory is arbitrary: every order of its matches
ScanDir(fsys, d) ==
    Orders({[dir |-> e.dir, name |-> e.name] : e \in {x \in fsys : x.dir = d /\ glob_txt(x.name)}})

RECURSIVE rglob(_, _)
\* p.rglob("*.txt") filtered by is_file: the lists it can yield, directory by directory
rglob(fsys, dirs) ==
    IF dirs = <<>> THEN {<<>>}
    ELSE {a \o b : a \in ScanDir(fsys, Head(dirs)), b \in rglob(fsys, Tail(dirs))}

ErrorOutcomes == {"PermissionError", "FileNotFoundError", "OSError"}

\* the rename calls of this run that raised
FaultCount == Cardinality({k \in 1..Len(processed) : processed[k].outcome \in ErrorOutcomes})

\* os.rename: the outcomes of renaming src to dst
os_rename(fsys, src, dst) ==
    LET faults == IF FaultCount < MaxFaults
                  THEN {[status |-> st, fs |-> fsys] : st \in ErrorOutcomes}
                  ELSE {}
    IN  IF ~exists(fsys, src)
        THEN {[status |-> "FileNotFoundError", fs |-> fsys]}
        ELSE IF \E e \in fsys : e.dir = dst.dir /\ SameName(e.name, dst.name) /\ os = "nt"
        THEN {[status |-> "OSError", fs |-> fsys]}
        ELSE LET moved == EntryAt(fsys, src)
                 kept == {e \in fsys : ~(e.dir = dst.dir /\ SameName(e.name, dst.name))}
             IN  {[status |-> "renamed",
                   fs |-> (kept \ {moved})
                          \cup {[moved EXCEPT !.dir = dst.dir, !.name = dst.name]}]}
                 \cup faults

----------------------------------------------------------------------------
(* The arguments *)

DirArg(d) == [kind |-> "dir", dir |-> d, name |-> <<>>]
FileArg(k) == [kind |-> "file", dir |-> Slots[k].dir, name |-> Slots[k].name]
BadArg == [kind |-> "bad", dir |-> "", name |-> <<>>]

ArgSet == {DirArg(ROOT), FileArg(1), FileArg(4), BadArg}

NoSummary == [printed |-> FALSE, considered |-> 0, renamed |-> 0]

----------------------------------------------------------------------------
(* collect_files *)

\* one iteration of the loop over input_paths
CollectArg ==
    /\ pc = "collect"
    /\ argi <= Len(argv)
    /\ LET raw == argv[argi]
           p == resolve(fs, [dir |-> raw.dir, name |-> raw.name])
       IN  IF raw.kind = "bad"
           THEN results' = results                     \* resolve raised: reported
           ELSE IF raw.kind = "file" /\ ~exists(fs, p)
           THEN results' = results                     \* path does not exist
           ELSE IF raw.kind = "file" /\ lower_str(suffix(p.name)) = DOT_TXT
           THEN results' = Append(results, p)
           ELSE IF raw.kind = "dir"
           THEN \E found \in rglob(fs, ScanOrder(raw.dir)) : results' = results \o found
           ELSE results' = results                     \* neither .txt file nor directory
    /\ argi' = argi + 1
    /\ UNCHANGED <<os, fs, argv, run, pc, i, success, processed, renames, summary,
                   gate, paused, exc, clean, prev>>
    /\ UNCHANGED nzvars

----------------------------------------------------------------------------
(* safe_rename, called from the loop of main *)

\* except clauses that catch the permission error only
caught_permission_only(status) == status \notin {"FileNotFoundError", "OSError"}

\* the except clauses of safe_rename: PermissionError, FileNotFoundError and
\* Exception, so nothing os.rename raises leaves safe_rename
caught(status) == TRUE

\* a renamer that also returns True when it skips a collision
returns_true_on_skip(outcome) == outcome \in {"renamed", "collision"}

\* the value safe_rename returns: True after the rename, False everywhere else
safe_rename_returns(outcome) == outcome = "renamed"

ProcessFile ==
    /\ pc = "loop"
    /\ i <= Len(results)
    /\ LET file_path == results[i]
           norm == normalize_filename(file_path.name)
           new_path == new_path_of(file_path, norm.name)
           Return(outcome, fsys) ==
               /\ fs' = fsys
               /\ renames' = IF fsys # fs THEN renames + 1 ELSE renames
               /\ processed' = Append(processed, [path |-> file_path, outcome |-> outcome])
               /\ IF caught(outcome)
                  THEN /\ success' = IF safe_rename_returns(outcome)
                                     THEN success + 1 ELSE success
                       /\ i' = i + 1
                       /\ UNCHANGED <<pc, exc>>
                  ELSE /\ pc' = "except"        \* the exception leaves main
                       /\ exc' = "Exception"
                       /\ UNCHANGED <<success, i>>
       IN  \/ /\ ~norm.changed
              /\ Return(norm.diag, fs)
           \/ /\ norm.changed
              /\ destination_exists(fs, new_path)
              /\ Return("collision", fs)
           \/ /\ norm.changed
              /\ ~destination_exists(fs, new_path)
              /\ \E r \in os_rename(fs, file_path, new_path) : Return(r.status, r.fs)
    /\ UNCHANGED <<os, argv, run, argi, results, summary, gate, paused, clean, prev>>
    /\ UNCHANGED nzvars

----------------------------------------------------------------------------
(* main, wait_exit and the __main__ guard *)

\* the banner, then the usage branch or the start of the collection
MainStart ==
    /\ pc = "start"
    /\ IF Len(argv) = 0
       THEN pc' = "wait_exit"
       ELSE pc' = "collect"
    /\ argi' = 1
    /\ results' = <<>>
    /\ UNCHANGED <<os, fs, argv, run, i, success, processed, renames, summary,
                   gate, paused, exc, clean, prev>>
    /\ UNCHANGED nzvars

\* collect_files returned: nothing to do, or the loop starts
CollectDone ==
    /\ pc = "collect"
    /\ argi > Len(argv)
    /\ IF results = <<>>
       THEN pc' = "wait_exit"
       ELSE pc' = "loop"
    /\ success' = 0
    /\ i' = 1
    /\ UNCHANGED <<os, fs, argv, run, argi, results, processed, renames, summary,
                   gate, paused, exc, clean, prev>>
    /\ UNCHANGED nzvars

\* the loop is over: the summary is printed
Summary ==
    /\ pc = "loop"
    /\ i > Len(results)
    /\ summary' = [printed |-> TRUE, considered |-> Len(results), renamed |-> success]
    /\ pc' = "wait_exit"
    /\ UNCHANGED <<os, fs, argv, run, argi, results, i, success, processed, renames,
                   gate, paused, exc, clean, prev>>
    /\ UNCHANGED nzvars

\* wait_exit: blocks for a key on Windows, returns at once elsewhere
WaitExit ==
    /\ pc = "wait_exit"
    /\ gate' = TRUE
    /\ paused' = (os = "nt")
    /\ pc' = "exited"
    /\ UNCHANGED <<os, fs, argv, run, argi, results, i, success, processed, renames,
                   summary, exc, clean, prev>>
    /\ UNCHANGED nzvars

\* an exception escapes main (a failed console write, sys.exit)
MainRaises ==
    /\ pc \in {"start", "collect", "loop"}
    /\ \E k \in {"Exception", "SystemExit"} : exc' = k
    /\ pc' = "except"
    /\ UNCHANGED <<os, fs, argv, run, argi, results, i, success, processed, renames,
                   summary, gate, paused, clean, prev>>
    /\ UNCHANGED nzvars

\* a guard without the SystemExit clause: sys.exit ends the program at once
TopLevelExcept_without_SystemExit ==
    /\ pc = "except"
    /\ exc \in {"Exception", "SystemExit"}
    /\ pc' = IF exc = "SystemExit" THEN "exited" ELSE "wait_exit"
    /\ UNCHANGED <<os, fs, argv, run, argi, results, i, success, processed, renames,
                   summary, gate, paused, exc, clean, prev>>
    /\ UNCHANGED nzvars

\* the except clauses of the __main__ guard: both end in wait_exit
TopLevelExcept ==
    /\ pc = "except"
    /\ exc \in {"Exception", "SystemExit"}
    /\ pc' = "wait_exit"
    /\ UNCHANGED <<os, fs, argv, run, argi, results, i, success, processed, renames,
                   summary, gate, paused, exc, clean, prev>>
    /\ UNCHANGED nzvars

\* the program is started again with the same arguments
SecondRun ==
    /\ pc = "exited"
    /\ run = "first"
    /\ run' = "second"
    /\ clean' = (exc = "none" /\ \A k \in 1..Len(processed) :
                                     processed[k].outcome \notin ErrorOutcomes)
    /\ prev' = renames
    /\ pc' = "start"
    /\ argi' = 1
    /\ results' = <<>>
    /\ i' = 1
    /\ success' = 0
    /\ processed' = <<>>
    /\ renames' = 0
    /\ summary' = NoSummary
    /\ gate' = FALSE
    /\ paused' = FALSE
    /\ exc' = "none"
    /\ UNCHANGED <<os, fs, argv>>
    /\ UNCHANGED nzvars

----------------------------------------------------------------------------
(* Specifications *)

\* on Windows two names of one directory never differ by case only
FsPossible(o, fsys) ==
    \A e1, e2 \in fsys :
        (e1.dir = e2.dir /\ o = "nt" /\ lower_str(e1.name) = lower_str(e2.name)) => e1 = e2

Init ==
    /\ os \in {"nt", "posix"}
    /\ \E chosen \in SUBSET (1..Len(Slots)) :
          /\ Cardinality(chosen) <= MaxFiles
          /\ fs = {[dir |-> Slots[k].dir, name |-> Slots[k].name, id |-> k] : k \in chosen}
    /\ FsPossible(os, fs)
    /\ argv \in SeqsUpTo(ArgSet, MaxArgs)
    /\ run = "first"
    /\ pc = "start"
    /\ argi = 1
    /\ results = <<>>
    /\ i = 1
    /\ success = 0
    /\ processed = <<>>
    /\ renames = 0
    /\ summary = NoSummary
    /\ gate = FALSE
    /\ paused = FALSE
    /\ exc = "none"
    /\ clean = FALSE
    /\ prev = 0
    /\ parts = NoParts
    /\ filename = <<>>
    /\ res1 = NoResult
    /\ res2 = NoResult
    /\ npc = "off"

Next ==
    \/ MainStart
    \/ CollectArg
    \/ CollectDone
    \/ ProcessFile
    \/ Summary
    \/ WaitExit

Spec == Init /\ [][Next]_vars

NextTwice ==
    \/ Next
    \/ SecondRun

SpecTwice == Init /\ [][NextTwice]_vars

NextFault ==
    \/ Next
    \/ MainRaises
    \/ TopLevelExcept

SpecFault == Init /\ [][NextFault]_vars

InitNorm ==
    /\ os = "posix"
    /\ fs = {}
    /\ argv = <<>>
    /\ run = "first"
    /\ pc = "off"
    /\ argi = 1
    /\ results = <<>>
    /\ i = 1
    /\ success = 0
    /\ processed = <<>>
    /\ renames = 0
    /\ summary = NoSummary
    /\ gate = FALSE
    /\ paused = FALSE
    /\ exc = "none"
    /\ clean = FALSE
    /\ prev = 0
    /\ parts \in Pieces
    /\ filename = Join(parts)
    /\ res1 = NoResult
    /\ res2 = NoResult
    /\ npc = "input"

NextNorm ==
    \/ NormalizeOnce
    \/ NormalizeAgain

SpecNorm == InitNorm /\ [][NextNorm]_vars

----------------------------------------------------------------------------
(* Properties of normalize_filename, stated on the pieces of the input *)

IsSepPiece(s) == s \in {<<DOT>>, <<FWDOT>>}
OneOrTwoDigits(s) == Len(s) \in {1, 2} /\ \A k \in 1..Len(s) : s[k] \in Digit
FourDigits(s) == Len(s) = 4 /\ \A k \in 1..4 : s[k] \in Digit
TxtExt(e) == e \in {<<".", "t", "x", "t">>, <<".", "T", "X", "T">>}

\* the stem is year, separator, month, separator, day and a remainder
DatePrefixed(p) ==
    /\ FourDigits(p.y)
    /\ IsSepPiece(p.s1)
    /\ OneOrTwoDigits(p.m)
    /\ IsSepPiece(p.s2)
    /\ OneOrTwoDigits(p.d)

\* the day is read as long as it can be: a one-digit day followed by a digit
\* is a two-digit day
DayTakesMore(p) == Len(p.d) = 1 /\ p.r # <<>> /\ p.r[1] \in Digit
DayOf(p) == IF DayTakesMore(p) THEN p.d \o <<p.r[1]>> ELSE p.d
RemainderOf(p) == IF DayTakesMore(p) THEN Tail(p.r) ELSE p.r

Pad2(s) == IF Len(s) = 1 THEN <<"0">> \o s ELSE s

ExpectedName(p) ==
    p.y \o <<".">> \o Pad2(p.m) \o <<".">> \o Pad2(DayOf(p)) \o RemainderOf(p) \o p.e

NeedsChange(p) ==
    \/ Len(p.m) = 1
    \/ Len(DayOf(p)) = 1
    \/ p.s1 = <<FWDOT>>
    \/ p.s2 = <<FWDOT>>

\* C1: for every name with a .txt extension (any case) whose stem is a 4-digit
\* year, a separator, a 1-2 digit month, a separator, a 1-2 digit day and an
\* arbitrary remainder, normalize_filename computes year "." month padded to
\* two digits "." day padded to two digits, the remainder unchanged, and the
\* extension in its original case.
C1_NormalizedName ==
    (npc = "once" /\ TxtExt(parts.e) /\ DatePrefixed(parts))
        => res1.name = ExpectedName(parts)

\* C3: whenever normalize_filename reports a change, normalize_filename of
\* the new name reports "already normalized", no change, and returns that
\* name unchanged.
C3_Idempotent ==
    (npc = "twice" /\ res1.changed)
        => /\ ~res2.changed
           /\ res2.name = res1.name
           /\ res2.diag = "already_normalized"

C3_Witness ==
    /\ npc = "twice"
    /\ res1.changed
    /\ parts.s1 = <<FWDOT>>
    /\ Len(parts.m) = 1
    /\ parts.r # <<>>
    /\ res1.name # filename

\* C4: normalize_filename reports a change exactly when the name ends in .txt
\* (any case), its stem has the date prefix, and the month or the day has one
\* digit or a separator is the full-width period; otherwise it reports no
\* change, returns the input name, and says "not applicable" for another
\* suffix, "no valid date prefix" for a stem without the prefix and "already
\* normalized" for the rest.
C4_ChangedIff ==
    npc = "once" =>
        /\ res1.changed <=> (TxtExt(parts.e) /\ DatePrefixed(parts) /\ NeedsChange(parts))
        /\ ~res1.changed => res1.name = filename
        /\ ~TxtExt(parts.e) => res1.diag = "not_txt"
        /\ (TxtExt(parts.e) /\ ~DatePrefixed(parts)) => res1.diag = "no_date_prefix"
        /\ (TxtExt(parts.e) /\ DatePrefixed(parts) /\ ~NeedsChange(parts))
               => res1.diag = "already_normalized"

----------------------------------------------------------------------------
(* Properties of the collector, the renamer and the driver *)

PathOf(e) == [dir |-> e.dir, name |-> e.name]

\* the loop of main is calling safe_rename on results[i]
RenamerStep == pc = "loop" /\ i <= Len(results) /\ Len(processed') = Len(processed) + 1

LastOutcome == processed'[Len(processed')].outcome

\* the name safe_rename wants for results[i] is the name of a file of the
\* same directory
DestinationTaken ==
    LET f == results[i]
        n == normalize_filename(f.name)
    IN  n.changed /\ \E e \in fs : e.dir = f.dir /\ SameName(e.name, n.name)

\* the same files, each in the directory it was in
SameFiles == {<<e.id, e.dir>> : e \in fs'} = {<<e.id, e.dir>> : e \in fs}
                 /\ Cardinality(fs') = Cardinality(fs)

\* C2: when the normalized destination of the file given to safe_rename
\* exists in its directory, nothing is renamed, the destination is kept and
\* the call returns "not renamed"; over the run no file is replaced and every
\* directory keeps its number of files.
C2_CollisionSafety ==
    [][ /\ (RenamerStep /\ DestinationTaken)
            => (fs' = fs /\ success' = success /\ LastOutcome = "collision")
        /\ SameFiles ]_vars

C2_Witness ==
    /\ pc = "exited"
    /\ \E j, k \in 1..Len(processed) :
          /\ j < k
          /\ processed[j].outcome = "renamed"
          /\ processed[k].outcome = "collision"
          /\ processed[j].path # processed[k].path
          /\ normalize_filename(processed[j].path.name).name
               = normalize_filename(processed[k].path.name).name

\* the files with a .txt extension, whatever its case, at any depth under ROOT
TxtFiles == {PathOf(e) : e \in {x \in fs : lower_str(suffix(x.name)) = DOT_TXT}}

SeqToSet(q) == {q[k] : k \in 1..Len(q)}

\* C5: collect_files of a directory returns exactly its files whose extension
\* is .txt compared without case, at any depth, once each; a file path with
\* such an extension given directly is accepted too.
C5_DirectoryExpansion ==
    (pc = "collect" /\ argi = 2) =>
        /\ argv[1] = DirArg(ROOT)
             => (SeqToSet(results) = TxtFiles /\ Len(results) = Cardinality(TxtFiles))
        /\ (argv[1].kind = "file" /\ PathOf(argv[1]) \in TxtFiles)
             => results = <<PathOf(argv[1])>>

\* the driver is at a place where one of its steps is enabled: no exception
\* has left main
CanStep ==
    \/ pc = "start"
    \/ pc = "collect"
    \/ pc = "loop"
    \/ pc = "wait_exit"

C7_FilesystemFrame ==
    [][ /\ ~RenamerStep => fs' = fs
        /\ (RenamerStep /\ LastOutcome # "renamed") => (fs' = fs /\ success' = success)
        /\ (RenamerStep /\ LastOutcome = "renamed") =>
              \E old \in fs, new \in fs' :
                 /\ PathOf(old) = results[i]
                 /\ fs' = (fs \ {old}) \cup {new}
                 /\ new.id = old.id
                 /\ new.dir = old.dir
                 /\ new.name # old.name
                 /\ ~\E e \in fs : e.dir = new.dir /\ e.name = new.name
                 /\ success' = success + 1 ]_vars

C7_Witness ==
    /\ \E k \in 1..Len(processed) :
          processed[k].outcome = "renamed" /\ processed[k].path.dir = SUB
    /\ \E k \in 1..Len(processed) : processed[k].outcome = "PermissionError"
    /\ \E e \in fs : e.dir = SUB /\ e.name = PaddedName

\* C8: the considered count is the length of the collected list, duplicates
\* included; the success count is the number of renames performed; it only
\* grows, by one for each rename, and never exceeds the files processed; a
\* file collected twice is renamed at most once.
C8_Counters ==
    /\ [](/\ success = renames
          /\ success <= Len(processed)
          /\ success = Cardinality({k \in 1..Len(processed) : processed[k].outcome = "renamed"})
          /\ summary.printed =>
                /\ summary.considered = Len(results)
                /\ summary.considered = Len(processed)
                /\ summary.renamed = renames
          /\ \A j, k \in 1..Len(processed) :
                (j < k /\ processed[j].path = processed[k].path)
                    => ~(processed[j].outcome = "renamed" /\ processed[k].outcome = "renamed"))
    /\ [][ /\ success' \in {success, success + 1}
           /\ success' = success + 1 <=> fs' # fs ]_vars

C8_Witness ==
    /\ pc = "exited"
    /\ summary.printed
    /\ summary.considered = 3
    /\ summary.renamed = 1
    /\ \E j, k \in 1..Len(processed) :
          /\ j < k
          /\ processed[j].path = processed[k].path
          /\ processed[j].outcome = "renamed"
          /\ processed[k].outcome = "collision"

\* C9 as stated: on every path the program pauses for the user before it
\* terminates.
C9_AlwaysPauses == pc = "exited" => (gate /\ paused)

\* C9: on every path (no argument, no eligible file, the summary, an
\* exception or SystemExit leaving main) wait_exit is entered before the
\* program terminates, and it pauses exactly when os.name is "nt"; with no
\* argument nothing is collected or renamed.
C9_GateReached ==
    /\ pc = "exited" => (gate /\ (paused <=> os = "nt"))
    /\ Len(argv) = 0 => (results = <<>> /\ processed = <<>> /\ renames = 0)

C9_Witness ==
    /\ pc = "exited"
    /\ exc = "SystemExit"
    /\ gate
    /\ ~paused
    /\ processed # <<>>

\* C10: after a first run without a permission, file-vanished or unexpected
\* rename error, a second run with the same arguments renames nothing.
C10_SecondRunRenamesNothing ==
    (run = "second" /\ clean) =>
        /\ renames = 0
        /\ success = 0
        /\ \A k \in 1..Len(processed) :
              processed[k].outcome \notin ({"renamed"} \cup ErrorOutcomes)

C10_Witness ==
    /\ run = "second"
    /\ clean
    /\ pc = "exited"
    /\ prev > 0
    /\ \E k \in 1..Len(processed) : processed[k].outcome = "collision"
    /\ \E k \in 1..Len(processed) : processed[k].outcome = "already_normalized"

====
